---- MODULE Spec2Model ----
(***************************************************************************)
(* Model of the allocator generated by the sequential_id_alloc! macro      *)
(* (src/src/lib.rs).  One instantiation of the macro is one behaviour:     *)
(* the macro arguments ($max, $arr_ty, the output type T) are chosen in    *)
(* the initial state and never change; next_ptr and bits are the fields    *)
(* of the generated struct.                                                *)
(***************************************************************************)
EXTENDS Integers, FiniteSets

\* Largest $max the model instantiates the macro with.
MaxCap == 6

\* Widest backing word ($arr_ty) the model instantiates the macro with, in
\* bits.  The real word types are 8..64 bits wide; the length of the bit
\* array depends on the width only through ElementCount, so the widths are
\* scaled down to 2..MaxWordBits.
MaxWordBits == 4

VARIABLES
    max,        \* $max: the value max() returns
    arr_bits,   \* width in bits of $arr_ty
    t_vals,     \* number of values of T: T::try_from(i) succeeds iff i < t_vals
    next_ptr,   \* field next_ptr
    bits,       \* field bits: [0 .. BitLen-1 -> BOOLEAN]
    last,       \* the last call: [op, arg, ret, panic, probes]
    prev,       \* the fields and the history as they were before the last call
    last_id,    \* Some(id) of the last alloc() that returned Some, else None
    shadow,     \* reference set run next to the allocator
    net,        \* allocs that returned Some minus deallocs of a contained id
    fresh_allocs, \* Some(k): k alloc() calls and no dealloc() since default()
                  \* (k stops counting at $max + 1); None after a dealloc()
    ref_bits,   \* reference allocator run side by side: its bitmap,
    ref_ptr,    \* its cursor, kept reduced modulo capacity,
    ref_ret,    \* and what its last call returned
    watch,      \* Some(i): the index whose re-issue is followed; None: none is
    seen,       \* Some(S) once watch was issued: S = the indices that, since
                \* then, a scan passed over as occupied or an alloc() returned
    covered     \* Some(S) when the last call re-issued watch: S = seen at it

vars ==
    <<max, arr_bits, t_vals, next_ptr, bits, last, prev, last_id, shadow, net,
      fresh_allocs, ref_bits, ref_ptr, ref_ret, watch, seen, covered>>

\* Option<usize>: None is the empty set, Some(i) is {i}.
None == {}
Some(i) == {i}
Unwrap(o) == CHOOSE i \in o : TRUE

----------------------------------------------------------------------------
\* The bit array.

\* Number of $arr_ty words that BitArr![for n, in $arr_ty] holds: n bits
\* rounded up to whole words.
ElementCount(n, w) == (n + w - 1) \div w

\* Length in bits of BitArr![for $max - 1, in $arr_ty]: a BitArray always
\* spans all the bits of its words.
BitLen(m, w) == ElementCount(m - 1, w) * w

Len(b) == Cardinality(DOMAIN b)

\* bits.count_ones() and bits.count_zeros()
count_ones(b) == Cardinality({i \in DOMAIN b : b[i]})
count_zeros(b) == Cardinality({i \in DOMAIN b : ~b[i]})

\* What a call records of the state it starts from: the fields, the history,
\* the call made before it (op, arg) and whether the pool was full before
\* that call.
Snapshot ==
    [bits |-> bits, next_ptr |-> next_ptr, last_id |-> last_id,
     shadow |-> shadow, op |-> last.op, arg |-> last.arg,
     was_full |-> count_zeros(prev.bits) = 0]

SetBits(b) == {i \in DOMAIN b : b[i]}
ClearBits(b) == {i \in DOMAIN b : ~b[i]}

----------------------------------------------------------------------------
\* The reference allocator the code is compared with: a bitmap of capacity
\* bits and a cursor stored as (found_index + 1) mod capacity.

\* The circular distance from cursor c to index i in a pool of n slots.
Ahead(c, i, n) == (i - c) % n

\* The first index with a cleared bit in the order c, c+1, ..., n-1, 0, ...,
\* c-1, stated from the claim and not from the scan.
FirstClear(b, c, n) ==
    CHOOSE i \in ClearBits(b) :
        \A j \in ClearBits(b) : Ahead(c, i, n) <= Ahead(c, j, n)

\* The reference starts with capacity clear bits.  It is run next to the
\* instantiations it is compared with, those whose bit array is exactly
\* capacity bits long; next to any other it has no slots and never moves.
RefDefaultBits(m, w) ==
    [i \in 0 .. (IF BitLen(m, w) = m THEN m ELSE 0) - 1 |-> FALSE]

RefFound(b, c, n) ==
    IF ClearBits(b) = {} THEN None ELSE Some(FirstClear(b, c, n))

RefAllocBits(b, found) ==
    IF found = None THEN b ELSE [b EXCEPT ![Unwrap(found)] = TRUE]

RefAllocPtr(c, found, n) ==
    IF found = None THEN c ELSE (Unwrap(found) + 1) % n

\* free(id): clears the bit of an in-range id, leaves the cursor alone.
RefDeallocBits(b, id) ==
    IF id \in DOMAIN b THEN [b EXCEPT ![id] = FALSE] ELSE b

----------------------------------------------------------------------------
\* The queries.

size_of(b) == count_ones(b)
is_full_of(b) == count_zeros(b) = 0

size == size_of(bits)
is_full == is_full_of(bits)
\* contains(id) indexes the bit array: it panics for id >= Len(bits), so it
\* is only evaluated for ids inside the array.
contains(id) == bits[id]

----------------------------------------------------------------------------
\* alloc(): the scan bits.into_iter().enumerate().cycle().skip(next_ptr)
\*          .take($max).filter_map(free).next()

\* A scan that always starts at index 0 (first fit).
SkipCountNone(p) == 0

\* skip(self.next_ptr): how many items of the cycle are dropped.
SkipCount(p) == p

\* A scan that examines one item more than $max items.
TakeCountLong(m) == m + 1

\* A scan that stops one item short of $max items.
TakeCountShort(m) == m - 1

\* take($max): how many items of the cycle are examined.
TakeCount(m) == m

\* The k-th item examined (k = 0, 1, ...) is the pair (i, b[i]) with this i:
\* enumerate().cycle() repeats 0 .. Len(b)-1 for ever.
ProbeIndex(b, p, k) == (SkipCount(p) + k) % Len(b)

\* A scan whose filter lets every item through.
IsFreeAlways(b, i) == TRUE

\* filter_map(|(i, b)| if !b { Some(i) } else { None })
IsFree(b, i) == ~b[i]

\* The positions k of the examined items that pass the filter.  The cycle of
\* an empty array yields nothing.
Hits(b, p, m) ==
    IF Len(b) = 0 THEN {}
    ELSE {k \in 0 .. TakeCount(m) - 1 : IsFree(b, ProbeIndex(b, p, k))}

\* A scan that takes the last free item it examined instead of the first.
ScanLast(b, p, m) ==
    LET h == Hits(b, p, m) IN
    IF h = {} THEN None
    ELSE Some(ProbeIndex(b, p, CHOOSE k \in h : \A j \in h : k >= j))

\* .next(): the index of the first hit, or None.
Scan(b, p, m) ==
    LET h == Hits(b, p, m) IN
    IF h = {} THEN None
    ELSE Some(ProbeIndex(b, p, CHOOSE k \in h : \A j \in h : k <= j))

\* The indices the scan examined, in order: the iterator chain is lazy, so
\* .next() pulls items up to and including the first hit, or all the
\* take($max) items when there is none.
Probes(b, p, m) ==
    LET h == Hits(b, p, m)
        n == IF Len(b) = 0 THEN 0
             ELSE IF h = {} THEN TakeCount(m)
             ELSE (CHOOSE k \in h : \A j \in h : k <= j) + 1
    IN  [k \in 0 .. n - 1 |-> ProbeIndex(b, p, k)]

\* No item examined (dealloc, default).
NoProbes == [k \in {} |-> 0]

\* self.bits.set(index, true), skipped by the `?` when the scan found nothing
AllocBits(b, found) ==
    IF found = None THEN b ELSE [b EXCEPT ![Unwrap(found)] = TRUE]

\* An alloc that leaves next_ptr on the index it issued.
AllocPtrSame(p, found) ==
    IF found = None THEN p ELSE Unwrap(found)

\* An alloc that moves next_ptr two past the index it issued.
AllocPtrSkip(p, found) ==
    IF found = None THEN p ELSE Unwrap(found) + 2

\* An alloc that rewinds next_ptr to 0 when the scan found nothing.
AllocPtrRewind(p, found) ==
    IF found = None THEN 0 ELSE Unwrap(found) + 1

\* self.next_ptr = index + 1, skipped by the `?` when the scan found nothing
AllocPtr(p, found) ==
    IF found = None THEN p ELSE Unwrap(found) + 1

\* T::try_from(index).ok(), or the None of the `?`
AllocRet(found, t) ==
    IF found = None THEN None
    ELSE IF Unwrap(found) < t THEN found ELSE None

\* The indices one alloc() passed over as occupied or returned.
Swept(b, p, m, ret) ==
    LET probed == Probes(b, p, m) IN
    {probed[k] : k \in {j \in DOMAIN probed : b[probed[j]]}} \cup ret

alloc ==
    LET found == Scan(bits, next_ptr, max)
        ret == AllocRet(found, t_vals)
        swept == Swept(bits, next_ptr, max, ret)
        reissue == ret # None /\ ret = watch
    IN  /\ bits' = AllocBits(bits, found)
        /\ covered' = IF reissue THEN {S \cup swept : S \in seen} ELSE None
        /\ seen' = IF reissue THEN Some({})
                   ELSE {S \cup swept : S \in seen}
        /\ UNCHANGED watch
        /\ next_ptr' = AllocPtr(next_ptr, found)
        /\ last' = [op |-> "alloc", arg |-> None, ret |-> ret, panic |-> FALSE,
                    probes |-> Probes(bits, next_ptr, max)]
        /\ prev' = Snapshot
        /\ last_id' = IF ret = None THEN last_id ELSE ret
        /\ shadow' = shadow \cup ret
        /\ net' = IF ret = None THEN net ELSE net + 1
        /\ fresh_allocs' = {IF k > max THEN k ELSE k + 1 : k \in fresh_allocs}
        /\ ref_bits' = RefAllocBits(ref_bits, RefFound(ref_bits, ref_ptr, max))
        /\ ref_ptr' = RefAllocPtr(ref_ptr, RefFound(ref_bits, ref_ptr, max), max)
        /\ ref_ret' = RefFound(ref_bits, ref_ptr, max)
        /\ UNCHANGED <<max, arr_bits, t_vals>>

----------------------------------------------------------------------------
\* dealloc(id)

\* self.bits.set(id, false) panics when id is not an index of the array,
\* before it writes anything.
SetPanics(b, id) == id >= Len(b)

\* A dealloc that clears nothing.
DeallocBitsKeep(b, id) == b

\* A dealloc that flips the bit instead of clearing it.
DeallocBitsFlip(b, id) ==
    IF SetPanics(b, id) THEN b ELSE [b EXCEPT ![id] = ~b[id]]

DeallocBits(b, id) ==
    IF SetPanics(b, id) THEN b ELSE [b EXCEPT ![id] = FALSE]

\* A dealloc that moves next_ptr back to the freed id.
DeallocPtrRewind(p, id) == id

\* dealloc never assigns next_ptr
DeallocPtr(p, id) == p

dealloc(id) ==
    /\ bits' = DeallocBits(bits, id)
    /\ next_ptr' = DeallocPtr(next_ptr, id)
    /\ last' = [op |-> "dealloc", arg |-> Some(id), ret |-> None,
                panic |-> SetPanics(bits, id), probes |-> NoProbes]
    /\ prev' = Snapshot
    /\ net' = IF ~SetPanics(bits, id) /\ bits[id] THEN net - 1 ELSE net
    /\ shadow' = shadow \ {id}
    /\ fresh_allocs' = None
    /\ ref_bits' = RefDeallocBits(ref_bits, id)
    /\ ref_ret' = None
    /\ UNCHANGED <<ref_ptr, watch, seen>>
    /\ covered' = None
    /\ UNCHANGED <<max, arr_bits, t_vals, last_id>>

----------------------------------------------------------------------------
\* Instantiations and Default::default()

\* The values an id of type T can take: 0 .. t_vals-1.
Ids == 0 .. t_vals - 1

\* The output types tried with a given $max: one value short of $max, exactly
\* $max values (u8 with 256), and one more.
TVals(m) == {t \in {m - 1, m, m + 1} : t >= 1}

Default(m, w, t) ==
    /\ max = m
    /\ arr_bits = w
    /\ t_vals = t
    /\ next_ptr = 0
    /\ bits = [i \in 0 .. BitLen(m, w) - 1 |-> FALSE]
    /\ last = [op |-> "default", arg |-> None, ret |-> None, panic |-> FALSE,
               probes |-> NoProbes]
    /\ prev = [bits |-> bits, next_ptr |-> 0, last_id |-> None,
               shadow |-> {}, op |-> "default", arg |-> None,
               was_full |-> FALSE]
    /\ last_id = None
    /\ shadow = {}
    /\ net = 0
    /\ fresh_allocs = Some(0)
    /\ ref_bits = RefDefaultBits(m, w)
    /\ ref_ptr = 0
    /\ ref_ret = None
    /\ seen = None
    /\ covered = None

\* An instantiation shaped like the repository's own
\* sequential_id_alloc!(SequentialIdAllocU8, u8, 256, u8): the bit array is
\* exactly $max bits long and T has a value for every index below $max.
SameShape(m, w, t) == BitLen(m, w) = m /\ t >= m

Init ==
    /\ \E m \in 1 .. MaxCap, w \in 2 .. MaxWordBits :
          \E t \in TVals(m) : SameShape(m, w, t) /\ Default(m, w, t)
    /\ watch = None

InitAny ==
    /\ \E m \in 1 .. MaxCap, w \in 2 .. MaxWordBits :
          \E t \in TVals(m) : Default(m, w, t)
    /\ watch = None

\* As Init with T of exactly $max values (u8 with 256), and with one index
\* of the pool followed from issue to re-issue.
InitWatch ==
    /\ \E m \in 1 .. MaxCap, w \in 2 .. MaxWordBits :
          SameShape(m, w, m) /\ Default(m, w, m)
    /\ \E i \in 0 .. max - 1 : watch = Some(i)

Next ==
    \/ alloc
    \/ \E id \in Ids : dealloc(id)

\* The allocator instantiated like the repository's test allocator.
Spec == Init /\ [][Next]_vars

\* The allocator under every instantiation of the macro within the bounds.
SpecAny == InitAny /\ [][Next]_vars

\* As Spec, following the history of one index.
SpecWatch == InitWatch /\ [][Next]_vars

----------------------------------------------------------------------------
\* Claims.

LastAlloc == last.op = "alloc"
LastDealloc == last.op = "dealloc"
Issued == Unwrap(last.ret)
Freed == Unwrap(last.arg)

\* C1: alloc() never returns an identifier whose occupancy bit was set
\* immediately before the call, nor one that an earlier alloc() returned and
\* that has not been passed to dealloc() since (under every instantiation).
C1_NoDoubleIssue ==
    (LastAlloc /\ last.ret # None) =>
        /\ Issued \in DOMAIN prev.bits
        /\ ~prev.bits[Issued]
        /\ Issued \notin prev.shadow

\* C1 witness: alloc() returned an id while two other ids were live, one of
\* them with a larger index.
C1_Witness ==
    /\ LastAlloc /\ last.ret # None
    /\ Cardinality(prev.shadow) >= 2
    /\ \E j \in prev.shadow : j > Issued

\* C2 as stated: when a bit is clear, alloc() returns the first cleared index
\* in circular order from the cursor, sets exactly that bit, and sets
\* cursor = (found_index + 1) mod capacity.
C2_AsStated ==
    (LastAlloc /\ ClearBits(prev.bits) # {}) =>
        /\ last.ret = Some(FirstClear(prev.bits, prev.next_ptr, max))
        /\ bits = [prev.bits EXCEPT ![Issued] = TRUE]
        /\ next_ptr = (Issued + 1) % max

\* C2 amended: as stated, except that the stored cursor is found_index + 1,
\* not reduced modulo capacity (it is capacity after the last index is
\* issued), and the scan starts at the stored cursor modulo capacity.
C2_ScanResult ==
    (LastAlloc /\ ClearBits(prev.bits) # {}) =>
        /\ last.ret = Some(FirstClear(prev.bits, prev.next_ptr % max, max))
        /\ bits = [prev.bits EXCEPT ![Issued] = TRUE]
        /\ next_ptr = Issued + 1
        /\ next_ptr % max = (Issued + 1) % max

\* C2 witness: alloc() started from the un-reduced cursor (= capacity),
\* skipped an occupied slot and issued a later one.
C2_Witness ==
    /\ LastAlloc /\ last.ret # None
    /\ prev.next_ptr = max
    /\ prev.bits[0]
    /\ Issued > 0
    /\ Cardinality(ClearBits(prev.bits)) >= 2

\* C3: when every index is occupied, alloc() returns None and leaves the
\* bitmap and the cursor exactly as they were.
C3_ExhaustionUnchanged ==
    (LastAlloc /\ ClearBits(prev.bits) = {}) =>
        /\ last.ret = None
        /\ bits = prev.bits
        /\ next_ptr = prev.next_ptr

\* C3 witness: alloc() was called on a full pool whose cursor is in the
\* middle of the pool.
C3_Witness ==
    /\ LastAlloc
    /\ ClearBits(prev.bits) = {}
    /\ prev.next_ptr > 0 /\ prev.next_ptr < max

\* C4: alloc() returns None iff is_full() held before the call; when it did
\* not, alloc() returns Some(n), size() grows by exactly one and contains(n)
\* holds afterwards.
C4_SucceedsIffNotFull ==
    LastAlloc =>
        /\ (last.ret = None) <=> is_full_of(prev.bits)
        /\ ~is_full_of(prev.bits) =>
              /\ last.ret # None
              /\ size = size_of(prev.bits) + 1
              /\ contains(Issued)

\* C4 witness: alloc() took the only free slot, which lay just behind the
\* cursor (the last slot the scan examines).
C4_Witness ==
    /\ LastAlloc /\ last.ret # None
    /\ ClearBits(prev.bits) = {Issued}
    /\ Issued + 1 = prev.next_ptr
    /\ is_full

\* C5: if the last alloc() that returned a value returned i and this
\* alloc() returns j < i (dealloc() calls and failed alloc() calls in
\* between), every index in (i, capacity-1] was occupied at this call; and an
\* index behind the cursor is chosen only when every index at or ahead of it
\* is occupied.
C5_MonotonicSweep ==
    (LastAlloc /\ last.ret # None) =>
        /\ \A i \in prev.last_id :
              Issued < i => \A k \in i + 1 .. max - 1 : prev.bits[k]
        /\ Issued < prev.next_ptr =>
              \A k \in prev.next_ptr .. max - 1 : prev.bits[k]

\* C5 witness: the scan wrapped: alloc() issued j below the previously
\* issued i, i was not the last index (so indices above i were examined and
\* found occupied), and another freed index in (j, i] was still free.
C5_Witness ==
    /\ LastAlloc /\ last.ret # None
    /\ \E i \in prev.last_id : Issued < i /\ i < max - 1
    /\ \E k \in ClearBits(prev.bits) : k > Issued

\* C6: alloc() returned i, i was freed, and alloc() is called again with no
\* other successful alloc() in between: it returns an id other than i
\* whenever another index is free.
C6_NoImmediateReuse ==
    (LastAlloc /\ last.ret # None) =>
        \A i \in prev.last_id :
            (~prev.bits[i] /\ ClearBits(prev.bits) # {i}) => Issued # i

\* C6 witness: i was issued and then freed, the call just before this
\* alloc() was a dealloc(), and alloc() issued an index below i although i
\* was free.
C6_Witness ==
    /\ LastAlloc /\ last.ret # None
    /\ \E i \in prev.last_id :
          /\ ~prev.bits[i]
          /\ Issued # i
          /\ Issued < i
          /\ prev.op = "dealloc"

\* C7: the reference set agrees with the allocator after every call:
\* {id : contains(id)} = shadow, size() = |shadow|, and size() is the number
\* of alloc() calls that returned a value minus the number of dealloc()
\* calls on a contained id.
C7_ShadowAgreement ==
    /\ SetBits(bits) = shadow
    /\ size = Cardinality(shadow)
    /\ size = net

\* C7 witness: a dealloc() of a live id that leaves two or more ids live,
\* the cursor having wrapped before (the last id issued lies below a live
\* one).
C7_Witness ==
    /\ LastDealloc /\ ~last.panic
    /\ prev.bits[Freed]
    /\ Cardinality(shadow) >= 2
    /\ net = 2
    /\ \E i \in last_id : \E j \in shadow : i < j

\* C8: under every instantiation, size() <= max() and is_full() holds
\* exactly when size() = max().
C8_CapacityInvariant ==
    /\ size <= max
    /\ is_full <=> size = max

\* C9: dealloc(id) with id in [0, capacity) clears the bit of id and changes
\* nothing else: the cursor and every other bit keep their values, and
\* contains(id) is false afterwards.
C9_DeallocFrame ==
    (LastDealloc /\ Freed < max) =>
        /\ ~last.panic
        /\ bits = [prev.bits EXCEPT ![Freed] = FALSE]
        /\ next_ptr = prev.next_ptr
        /\ ~contains(Freed)

\* C9 witness: dealloc() of a live id ahead of the cursor's last issue, with
\* other ids live.
C9_Witness ==
    /\ LastDealloc
    /\ Freed < max
    /\ prev.bits[Freed]
    /\ size >= 2
    /\ next_ptr > 0 /\ next_ptr # Freed

\* C10: dealloc(id) of an in-range id whose bit is already clear does not
\* fail and leaves bitmap and cursor unchanged, so a second dealloc(id) in a
\* row changes nothing; contains(id) is false afterwards.
C10_IdempotentFree ==
    (LastDealloc /\ Freed < max /\ ~prev.bits[Freed]) =>
        /\ ~last.panic
        /\ bits = prev.bits
        /\ next_ptr = prev.next_ptr
        /\ ~contains(Freed)

\* C10 witness: the second of two dealloc(id) calls in a row, with other
\* ids live.
C10_Witness ==
    /\ LastDealloc
    /\ Freed < max
    /\ prev.op = "dealloc" /\ prev.arg = last.arg
    /\ size >= 1

\* C11: a newly constructed allocator has size() = 0, contains(id) false
\* for every id and is_full() false; with no dealloc() in between, the k-th
\* alloc() (1 <= k <= capacity) returns k - 1, and the (capacity + 1)-th
\* returns None with is_full() true.
C11_FillInOrder ==
    /\ last.op = "default" =>
          /\ size = 0
          /\ \A id \in 0 .. max - 1 : ~contains(id)
          /\ ~is_full
    /\ LastAlloc =>
          \A k \in fresh_allocs :
              /\ k <= max => last.ret = Some(k - 1)
              /\ k = max + 1 => last.ret = None /\ is_full

\* C11 witness: the (capacity + 1)-th alloc() of a fresh allocator of three
\* or more slots has returned.
C11_Witness ==
    /\ LastAlloc
    /\ fresh_allocs = Some(max + 1)
    /\ prev.op = "alloc"
    /\ max >= 3

\* C12: in any state where the pool is full, for every k in [0, capacity),
\* dealloc(k) makes is_full() false and the alloc() that follows at once
\* returns k, wherever the cursor is.
C12_WrapReuse ==
    /\ (LastDealloc /\ Freed < max /\ is_full_of(prev.bits)) => ~is_full
    /\ (LastAlloc /\ prev.op = "dealloc" /\ prev.was_full) =>
          \A k \in prev.arg : k < max => last.ret = Some(k)

\* C12 witness: the pool was full, an id k strictly between the ends was
\* freed with the cursor elsewhere (neither on k nor just past it), and
\* alloc() has returned.
C12_Witness ==
    /\ LastAlloc
    /\ prev.op = "dealloc" /\ prev.was_full
    /\ \E k \in prev.arg :
          /\ 0 < k /\ k < max - 1
          /\ prev.next_ptr % max # k
          /\ prev.next_ptr # k + 1

\* C13: under every instantiation, every identifier alloc() returns is an
\* integer in [0, max).
C13_IdRange ==
    (LastAlloc /\ last.ret # None) => (0 <= Issued /\ Issued < max)

\* C14 as stated: in every reachable state 0 <= next_ptr < capacity.
C14_AsStated == 0 <= next_ptr /\ next_ptr < max

\* C14 amended: in every reachable state 0 <= next_ptr <= capacity;
\* next_ptr = capacity only while the last index, capacity - 1, is the id
\* issued last.
C14_CursorRange ==
    /\ 0 <= next_ptr /\ next_ptr <= max
    /\ next_ptr = max <=> last_id = Some(max - 1)

\* C14 witness: the stored cursor equals capacity, and stays there over a
\* dealloc() of a lower id.
C14_Witness ==
    /\ next_ptr = max
    /\ LastDealloc /\ ~last.panic
    /\ prev.bits[Freed]
    /\ Freed < max - 1

\* C15: an allocator whose capacity exceeds the number of values of the id
\* type is rejected at construction and never used; in particular no
\* alloc() on it marks a slot occupied without returning its identifier.
C15_RejectedAtConstruction ==
    max > t_vals =>
        ~(LastAlloc /\ last.ret = None /\ SetBits(bits) # SetBits(prev.bits))

\* C17: under every instantiation, whenever alloc() returns None the bitmap
\* and the cursor are unchanged; whenever alloc() sets a bit it returns
\* Some(id) with id the index of that bit.
C17_NoneMeansUnchanged ==
    LastAlloc =>
        /\ last.ret = None => (bits = prev.bits /\ next_ptr = prev.next_ptr)
        /\ bits # prev.bits =>
              /\ last.ret # None
              /\ SetBits(bits) \ SetBits(prev.bits) = last.ret

\* C19: every alloc() examines at most capacity slots, each index at most
\* once, and returns None only after all capacity indices were examined and
\* found occupied.
C19_BoundedScan ==
    LastAlloc =>
        LET probed == last.probes IN
        /\ Cardinality(DOMAIN probed) <= max
        /\ \A j, k \in DOMAIN probed : probed[j] = probed[k] => j = k
        /\ last.ret = None =>
              /\ {probed[k] : k \in DOMAIN probed} = 0 .. max - 1
              /\ \A i \in 0 .. max - 1 : prev.bits[i]

\* C19 witness: an alloc() on a full pool examined capacity slots starting
\* in the middle of the pool and wrapping.
C19_Witness ==
    /\ LastAlloc /\ last.ret = None
    /\ Cardinality(DOMAIN last.probes) = max
    /\ last.probes[0] > 0
    /\ last.probes[max - 1] = last.probes[0] - 1

\* C18: side by side with the reference allocator that stores
\* cursor = (found_index + 1) mod capacity, after every sequence of calls
\* (capacity equal to the bit-array length) both returned the same result
\* and hold the same bitmap, next_ptr mod capacity is the reference cursor,
\* and next_ptr <= capacity.
C18_CursorHarmless ==
    /\ last.ret = ref_ret
    /\ bits = ref_bits
    /\ next_ptr % max = ref_ptr
    /\ next_ptr <= max

\* C18 witness: the stored cursors differed (capacity against 0) when
\* alloc() was called, slot 0 was occupied, and both allocators issued the
\* same later index.
C18_Witness ==
    /\ LastAlloc /\ last.ret # None /\ ref_ret = last.ret
    /\ prev.next_ptr = max
    /\ prev.bits[0]
    /\ Issued > 0
    /\ next_ptr = ref_ptr

\* C16: for two alloc() calls that return the same identifier i with no
\* other alloc() returning i between them, every other index j # i was
\* returned by an alloc() in that interval or found occupied by a scan that
\* passed it in that interval (the second call's scan included).
C16_RoundRobinReuse ==
    \A S \in covered : \A i \in watch : (0 .. max - 1) \ {i} \subseteq S

\* C16 witness: i was re-issued in a pool of three or more slots while
\* another index was free, the call before being a dealloc().
C16_Witness ==
    /\ covered # None
    /\ LastAlloc /\ last.ret = watch
    /\ max >= 3
    /\ Cardinality(ClearBits(prev.bits)) >= 2
    /\ prev.op = "dealloc"

====
